---- MODULE Spec2Model ----
(***************************************************************************)
(* The orchestration loop of the multi-agent RAG assistant                 *)
(* (src/src/appcopy.py run()), the routing prompt of the orchestration     *)
(* agent, and the tools of the task agents that write the shared state     *)
(* (src/src/document_pre_processing_agent.py, src/src/generation_agent.py).*)
(*                                                                         *)
(* Texts are atomic strings; str.strip() and str.lower() are the maps      *)
(* Strip and Lower over the texts that occur.  A chat message is kept as   *)
(* its role (user, tool, assistant).  The decision service behind every    *)
(* agent (an LLM) is a nondeterministic choice of its reply and of the     *)
(* tools it calls.                                                         *)
(***************************************************************************)
EXTENDS Naturals, Sequences, FiniteSets, TLC

\* ------------------------------------------------------------- bounds
\* Tool calls the decision service makes within one chat() of an agent.
MaxToolCalls == 2
\* ChatMemoryBuffer's token budget, counted in messages.
TokenLimit == 2

\* ------------------------------------------------------------- values
\* Python's None.
NULL == "<None>"
\* The empty string.
EMPTY == ""

\* class Speaker(str, Enum)
Data_pre_processing == "data_pre_processing"
Indexing == "indexing"
Retriever == "retriever"
ReRanking == "reranking"
Generation == "generation"
Concierge == "Concierge"
ORCHESTRATOR == "orchestrator"
Speaker ==
    {Data_pre_processing, Indexing, Retriever, ReRanking, Generation,
     Concierge, ORCHESTRATOR}

\* The fixed utterances of run().
GreetingMsg == "Hello there!"
RetryMsg == "That's not right, try again. Pick one agent."
NoFurtherTask == "no_further_task"

\* Lines the user may type at input().
UserLines == {"hello", "exit", " EXIT "}
\* Replies of the continuation agent.
ContinuationTexts == {NoFurtherTask, "no_further_task ", "exit"}
\* Replies of the orchestration agent when it does not follow its prompt.
RouterTexts ==
    {Data_pre_processing, Indexing, Generation, Concierge, " Concierge ",
     "banana", Retriever}
\* What the orchestration agent takes the user to want.
Intents == {"preprocess", "index", "query", "other"}
\* Values the decision service may hand to a parameter tool.
ParamValues == {NULL, EMPTY, "v"}

\* str.strip()
Strip(s) ==
    CASE s = " EXIT " -> "EXIT"
      [] s = " Concierge " -> "Concierge"
      [] s = "no_further_task " -> "no_further_task"
      [] OTHER -> s

\* str.lower()
Lower(s) ==
    CASE s = "EXIT" -> "exit"
      [] s = " EXIT " -> " exit "
      [] s = "Concierge" -> "concierge"
      [] s = " Concierge " -> " concierge "
      [] OTHER -> s

\* Python truthiness of an optional string: None and "" are falsy.
Truthy(v) == v # NULL /\ v # EMPTY

\* get_initial_state()
get_initial_state ==
    [input_dir |-> NULL, chunk_size |-> NULL, chunk_overlap |-> NULL,
     embedding_model |-> NULL, reranking_model |-> NULL, search_type |-> NULL,
     query |-> NULL, current_speaker |-> NULL, just_finished |-> FALSE]

\* ------------------------------------------------------------- memory
Suffix(log, k) == SubSeq(log, Len(log) - k + 1, Len(log))

\* ChatMemoryBuffer.get(): the whole log when it fits the budget, else the
\* longest recent part within the budget that starts with a user message.
MemoryGet(log) ==
    IF Len(log) <= TokenLimit THEN log
    ELSE LET ks == {k \in 1..TokenLimit : log[Len(log) - k + 1] = "user"}
         IN  IF ks = {} THEN << >>
             ELSE Suffix(log, CHOOSE k \in ks : \A j \in ks : j <= k)

\* Mutant of ChatStart: the agent starts from an empty memory.
ChatStart_DropsHistory(h, msg) == <<"user">>

\* agent.chat(msg, chat_history=h): the agent's memory is set to h and the
\* user message is put into it.
ChatStart(h, msg) == Append(h, "user")

\* ------------------------------------------------------------- router
\* The tools of the orchestration agent: reads of the shared state.
has_input_dir(st) == st.input_dir # NULL
has_chunk_size(st) == st.chunk_size # NULL
has_chunk_overlap(st) == st.chunk_overlap # NULL
has_embedding_model(st) == st.embedding_model # NULL
has_reranking_model(st) == st.reranking_model # NULL
has_search_type(st) == st.search_type # NULL
has_query(st) == st.query # NULL

HasTrio(st) == has_input_dir(st) /\ has_chunk_size(st) /\ has_chunk_overlap(st)

\* Mutant of Decide: the preprocessing intent is not gated on its parameters.
Decide_NoPreprocessingGate(st, i) ==
    IF Truthy(st.current_speaker) THEN {st.current_speaker}
    ELSE CASE i = "preprocess" -> {Data_pre_processing}
           [] i = "index" ->
                (IF ~has_embedding_model(st) THEN {Concierge} ELSE {})
                \cup (IF ~HasTrio(st) THEN {Data_pre_processing} ELSE {})
                \cup (IF has_embedding_model(st) /\ HasTrio(st)
                      THEN {Indexing} ELSE {})
           [] i = "query" ->
                IF has_query(st) /\ has_search_type(st) /\ has_reranking_model(st)
                THEN {Generation} ELSE {Concierge}
           [] OTHER -> {Concierge}

\* Mutant of Decide: the indexing intent is not gated on the embedding model.
Decide_NoEmbeddingGate(st, i) ==
    IF Truthy(st.current_speaker) THEN {st.current_speaker}
    ELSE CASE i = "preprocess" ->
                IF HasTrio(st) THEN {Data_pre_processing} ELSE {Concierge}
           [] i = "index" ->
                IF ~HasTrio(st) THEN {Data_pre_processing} ELSE {Indexing}
           [] i = "query" ->
                IF has_query(st) /\ has_search_type(st) /\ has_reranking_model(st)
                THEN {Generation} ELSE {Concierge}
           [] OTHER -> {Concierge}

\* Mutant of Decide: the query intent is gated on the query alone.
Decide_QueryOnly(st, i) ==
    IF Truthy(st.current_speaker) THEN {st.current_speaker}
    ELSE CASE i = "preprocess" ->
                IF HasTrio(st) THEN {Data_pre_processing} ELSE {Concierge}
           [] i = "index" ->
                (IF ~has_embedding_model(st) THEN {Concierge} ELSE {})
                \cup (IF ~HasTrio(st) THEN {Data_pre_processing} ELSE {})
                \cup (IF has_embedding_model(st) /\ HasTrio(st)
                      THEN {Indexing} ELSE {})
           [] i = "query" ->
                IF has_query(st) THEN {Generation} ELSE {Concierge}
           [] OTHER -> {Concierge}

\* The decisions the system prompt of the orchestration agent allows for a
\* state and an intent.  For the indexing intent the prompt gives two
\* instructions and no order between them: with the embedding model and a
\* preprocessing parameter both missing, either applies.
Decide(st, i) ==
    IF Truthy(st.current_speaker) THEN {st.current_speaker}
    ELSE CASE i = "preprocess" ->
                IF HasTrio(st) THEN {Data_pre_processing} ELSE {Concierge}
           [] i = "index" ->
                (IF ~has_embedding_model(st) THEN {Concierge} ELSE {})
                \cup (IF ~HasTrio(st) THEN {Data_pre_processing} ELSE {})
                \cup (IF has_embedding_model(st) /\ HasTrio(st)
                      THEN {Indexing} ELSE {})
           [] i = "query" ->
                IF has_query(st) /\ has_search_type(st) /\ has_reranking_model(st)
                THEN {Generation} ELSE {Concierge}
           [] OTHER -> {Concierge}

\* ------------------------------------------------------------- state
VARIABLES
    state,            \* the shared state dict
    root_memory,      \* the canonical chat log (root_memory)
    first_run, is_retry, should_continue,
    user_msg_str,     \* this turn's utterance
    current_history,  \* the snapshot taken at line 241
    next_speaker,
    agent,            \* which agent the local current_speaker holds
    doc_processor,    \* preprocess_docs(state): parameters copied at construction
    agent_memory,     \* the memory of the agent that is chatting
    tool_calls,       \* tool calls made in the running chat()
    pc,               \* position of run()
    utterance_source, \* which branch of lines 213-240 produced user_msg_str
    router_called,    \* the orchestration agent was asked in this iteration
    router_obeys,     \* the orchestration agent follows its system prompt
    last_call,        \* the last call of the orchestration agent since an agent ran
    done_called,      \* a completion tool ran in the running chat()
    last_exec,        \* what the last process_documents of the running chat() did
    pending_input     \* the line read from the user that no agent was given yet

loopVars == <<first_run, is_retry, should_continue>>
turnVars == <<user_msg_str, current_history, utterance_source, pending_input>>
routeVars == <<next_speaker, router_called, last_call>>
chatVars ==
    <<agent, doc_processor, agent_memory, tool_calls, done_called, last_exec>>
vars ==
    <<state, root_memory, first_run, is_retry, should_continue, user_msg_str,
      current_history, next_speaker, agent, doc_processor, agent_memory,
      tool_calls, pc, utterance_source, router_called, router_obeys,
      last_call, done_called, last_exec, pending_input>>

NoCall == [made |-> FALSE]
NoExec == "none"

\* preprocess_docs.__init__: the three parameters are copied out of the state.
preprocess_docs(st) ==
    [input_dir |-> st.input_dir, chunk_size |-> st.chunk_size,
     chunk_overlap |-> st.chunk_overlap]

Init ==
    /\ state = get_initial_state
    /\ root_memory = << >>
    /\ first_run = TRUE
    /\ is_retry = FALSE
    /\ should_continue = TRUE
    /\ user_msg_str = NULL
    /\ current_history = << >>
    /\ next_speaker = NULL
    /\ agent = NULL
    /\ doc_processor = preprocess_docs(get_initial_state)
    /\ agent_memory = << >>
    /\ tool_calls = 0
    /\ pc = "loop"
    /\ utterance_source = "none"
    /\ router_called = FALSE
    /\ router_obeys = FALSE
    /\ last_call = NoCall
    /\ done_called = FALSE
    /\ last_exec = NoExec
    /\ pending_input = NULL

\* ------------------------------------------------ run(): the utterance
\* Lines 241 and the reset of the per-iteration record, shared by the four
\* branches below.
TakeSnapshot ==
    /\ current_history' = MemoryGet(root_memory)
    /\ router_called' = FALSE
    /\ pc' = "route"

\* user_msg_str.lower() == "exit"
IsExit(s) == Lower(s) = "exit"

\* A line read from the user waits for an agent unless it is exit.
Unserved(line) == IF IsExit(line) THEN NULL ELSE line

\* Line 227: the continuation agent is handed current_history, the value the
\* variable was given at line 241 of the iteration before.
ContinuationHistory == current_history

\* Lines 222-228: what the continuation agent may answer over a history.
ContinuationReplies(history) == ContinuationTexts

\* Lines 213-216: the first iteration greets.
Greeting ==
    /\ pc = "loop" /\ should_continue
    /\ first_run
    /\ user_msg_str' = GreetingMsg
    /\ first_run' = FALSE
    /\ utterance_source' = "greeting"
    /\ TakeSnapshot
    /\ UNCHANGED <<state, root_memory, is_retry, should_continue, next_speaker,
                   last_call, router_obeys, pending_input>>
    /\ UNCHANGED chatVars

\* Lines 217-219: after an invalid decision the fixed clarification is used.
RetryUtterance ==
    /\ pc = "loop" /\ should_continue
    /\ ~first_run /\ is_retry = TRUE
    /\ user_msg_str' = RetryMsg
    /\ is_retry' = FALSE
    /\ utterance_source' = "retry"
    /\ TakeSnapshot
    /\ UNCHANGED <<state, root_memory, first_run, should_continue, next_speaker,
                   last_call, router_obeys, pending_input>>
    /\ UNCHANGED chatVars

\* Mutant of Continuation: just_finished is not cleared.
Continuation_KeepsFlag ==
    /\ pc = "loop" /\ should_continue
    /\ ~first_run /\ is_retry # TRUE /\ state.just_finished = TRUE
    /\ \E reply \in ContinuationReplies(ContinuationHistory) :
          IF reply = NoFurtherTask
          THEN \E line \in UserLines :
                  /\ user_msg_str' = Strip(line)
                  /\ should_continue' = ~IsExit(Strip(line))
                  /\ utterance_source' = "prompt_after_continuation"
                  /\ pending_input' = Unserved(Strip(line))
          ELSE /\ user_msg_str' = reply
               /\ utterance_source' = "continuation"
               /\ UNCHANGED pending_input
               /\ UNCHANGED should_continue
    /\ TakeSnapshot
    /\ UNCHANGED <<state, root_memory, first_run, is_retry, next_speaker,
                   last_call, router_obeys>>
    /\ UNCHANGED chatVars

\* Mutant of Continuation: the exit test is applied to the continuation
\* agent's own text as well.
Continuation_ExitOnAnyText ==
    /\ pc = "loop" /\ should_continue
    /\ ~first_run /\ is_retry # TRUE /\ state.just_finished = TRUE
    /\ \E reply \in ContinuationReplies(ContinuationHistory) :
          IF reply = NoFurtherTask
          THEN \E line \in UserLines :
                  /\ user_msg_str' = Strip(line)
                  /\ should_continue' = ~IsExit(Strip(line))
                  /\ utterance_source' = "prompt_after_continuation"
                  /\ pending_input' = Unserved(Strip(line))
          ELSE /\ user_msg_str' = reply
               /\ utterance_source' = "continuation"
               /\ UNCHANGED pending_input
               /\ should_continue' = ~IsExit(reply)
    /\ state' = [state EXCEPT !.just_finished = FALSE]
    /\ TakeSnapshot
    /\ UNCHANGED <<root_memory, first_run, is_retry, next_speaker,
                   last_call, router_obeys>>
    /\ UNCHANGED chatVars

\* Lines 220-234: the continuation agent is asked; on no_further_task a line
\* is read at the ">> " prompt.
Continuation ==
    /\ pc = "loop" /\ should_continue
    /\ ~first_run /\ is_retry # TRUE /\ state.just_finished = TRUE
    /\ \E reply \in ContinuationReplies(ContinuationHistory) :
          IF reply = NoFurtherTask
          THEN \E line \in UserLines :
                  /\ user_msg_str' = Strip(line)
                  /\ should_continue' = ~IsExit(Strip(line))
                  /\ utterance_source' = "prompt_after_continuation"
                  /\ pending_input' = Unserved(Strip(line))
          ELSE /\ user_msg_str' = reply
               /\ utterance_source' = "continuation"
               /\ UNCHANGED pending_input
               /\ UNCHANGED should_continue
    /\ state' = [state EXCEPT !.just_finished = FALSE]
    /\ TakeSnapshot
    /\ UNCHANGED <<root_memory, first_run, is_retry, next_speaker,
                   last_call, router_obeys>>
    /\ UNCHANGED chatVars

\* Lines 235-240: a line is read at the "> " prompt.
DirectInput ==
    /\ pc = "loop" /\ should_continue
    /\ ~first_run /\ is_retry # TRUE /\ state.just_finished # TRUE
    /\ \E line \in UserLines :
          /\ user_msg_str' = Strip(line)
          /\ should_continue' = ~IsExit(Strip(line))
          /\ pending_input' = Unserved(Strip(line))
    /\ utterance_source' = "prompt"
    /\ TakeSnapshot
    /\ UNCHANGED <<state, root_memory, first_run, is_retry, next_speaker,
                   last_call, router_obeys>>
    /\ UNCHANGED chatVars

\* Line 212: the while test fails and run() returns.
LoopExit ==
    /\ pc = "loop" /\ ~should_continue
    /\ pc' = "done"
    /\ UNCHANGED <<state, root_memory, router_called, router_obeys, next_speaker,
                   last_call>>
    /\ UNCHANGED loopVars
    /\ UNCHANGED turnVars
    /\ UNCHANGED chatVars

\* ------------------------------------------------ run(): who speaks next
\* What the orchestration agent may answer.
RouterReplies(st, i) == IF router_obeys THEN Decide(st, i) ELSE RouterTexts

\* Mutant of HasSpeaker: the orchestration agent is asked on every turn.
HasSpeaker_Never(st) == FALSE

\* Line 244: if (state["current_speaker"])
HasSpeaker(st) == Truthy(st.current_speaker)

\* Lines 244-246: a speaker that holds the floor keeps it.
StickySpeaker ==
    /\ pc = "route"
    /\ HasSpeaker(state)
    /\ next_speaker' = state.current_speaker
    /\ pc' = "dispatch"
    /\ UNCHANGED <<state, root_memory, router_called, last_call,
                   router_obeys>>
    /\ UNCHANGED loopVars
    /\ UNCHANGED turnVars
    /\ UNCHANGED chatVars

\* Lines 247-250: the orchestration agent is built over the state and asked;
\* its answer is stripped.
AskOrchestrator ==
    /\ pc = "route"
    /\ ~HasSpeaker(state)
    /\ \E i \in Intents : \E reply \in RouterReplies(state, i) :
          /\ next_speaker' = Strip(reply)
          /\ last_call' = [made |-> TRUE, state |-> state,
                           history |-> current_history, msg |-> user_msg_str,
                           intent |-> i, decision |-> Strip(reply)]
    /\ router_called' = TRUE
    /\ pc' = "dispatch"
    /\ UNCHANGED <<state, root_memory, router_obeys>>
    /\ UNCHANGED loopVars
    /\ UNCHANGED turnVars
    /\ UNCHANGED chatVars

\* ------------------------------------------------ run(): dispatch
\* Mutant of StickyRoles: the Concierge branch takes the floor as well.
StickyRoles_WithConcierge == {Data_pre_processing, Indexing, Generation, Concierge}

\* The branches of lines 254-265: the agents that take the floor.
StickyRoles == {Data_pre_processing, Indexing, Generation}
\* The branches of lines 254-268.
ValidSpeakers == StickyRoles \cup {Concierge}

NoProcessor == [input_dir |-> NULL, chunk_size |-> NULL, chunk_overlap |-> NULL]

\* Mutant of Dispatch: the resolved speaker is stored as current_speaker
\* before the branches are tried, whatever it is.
Dispatch_FloorForAnyAnswer ==
    /\ pc = "dispatch"
    /\ state' = [state EXCEPT !.current_speaker = next_speaker]
    /\ IF next_speaker \in ValidSpeakers
       THEN /\ agent' = next_speaker
            /\ doc_processor' = IF next_speaker = Data_pre_processing
                                THEN preprocess_docs(state) ELSE NoProcessor
            /\ agent_memory' = ChatStart(current_history, user_msg_str)
            /\ tool_calls' = 0
            /\ done_called' = FALSE
            /\ last_exec' = NoExec
            /\ last_call' = NoCall
            /\ pending_input' = IF user_msg_str = pending_input
                                THEN NULL ELSE pending_input
            /\ pc' = "chat"
            /\ UNCHANGED is_retry
       ELSE /\ is_retry' = TRUE
            /\ pc' = "loop"
            /\ UNCHANGED <<agent, doc_processor, agent_memory,
                           tool_calls, done_called, last_exec, last_call,
                           pending_input>>
    /\ UNCHANGED <<root_memory, first_run, should_continue, router_obeys,
                   next_speaker, router_called, user_msg_str, current_history,
                   utterance_source>>

\* Lines 254-272 and the start of chat() at line 279.  The agent is built
\* over the state (the preprocessing agent copies its parameters), a task
\* agent takes the floor, and anything else is a retry.
Dispatch ==
    /\ pc = "dispatch"
    /\ IF next_speaker \in ValidSpeakers
       THEN /\ agent' = next_speaker
            /\ doc_processor' = IF next_speaker = Data_pre_processing
                                THEN preprocess_docs(state) ELSE NoProcessor
            /\ state' = IF next_speaker \in StickyRoles
                        THEN [state EXCEPT !.current_speaker = next_speaker]
                        ELSE state
            /\ agent_memory' = ChatStart(current_history, user_msg_str)
            /\ tool_calls' = 0
            /\ done_called' = FALSE
            /\ last_exec' = NoExec
            /\ last_call' = NoCall
            /\ pending_input' = IF user_msg_str = pending_input
                                THEN NULL ELSE pending_input
            /\ pc' = "chat"
            /\ UNCHANGED is_retry
       ELSE /\ is_retry' = TRUE
            /\ pc' = "loop"
            /\ UNCHANGED <<state, agent, doc_processor, agent_memory,
                           tool_calls, done_called, last_exec, last_call,
                           pending_input>>
    /\ UNCHANGED <<root_memory, first_run, should_continue, router_obeys,
                   next_speaker, router_called, user_msg_str, current_history,
                   utterance_source>>

\* ------------------------------------------------ the agents' tools
\* A tool call of the chatting agent: the call and its result enter the
\* agent's memory.
ToolCall(who, name) ==
    /\ pc = "chat"
    /\ agent = who
    /\ tool_calls < MaxToolCalls
    /\ tool_calls' = tool_calls + 1
    /\ agent_memory' = Append(agent_memory, "tool")

\* An exception leaving a tool either is reported to the decision service by
\* the agent framework (the chat goes on) or leaves chat() and ends run().
ToolRaises ==
    \/ pc' = "chat"
    \/ pc' = "aborted"

ToolFrame ==
    /\ UNCHANGED <<root_memory, agent, doc_processor, router_obeys>>
    /\ UNCHANGED loopVars
    /\ UNCHANGED turnVars
    /\ UNCHANGED routeVars

\* DocumentPreprocessingAgent.has_input_dir(input_dir)
Preprocessing_has_input_dir ==
    /\ ToolCall(Data_pre_processing, "has_input_dir")
    /\ \E v \in ParamValues : state' = [state EXCEPT !.input_dir = v]
    /\ pc' = "chat"
    /\ UNCHANGED <<done_called, last_exec>>
    /\ ToolFrame

\* DocumentPreprocessingAgent.has_chunk_size(chunk_size)
Preprocessing_has_chunk_size ==
    /\ ToolCall(Data_pre_processing, "has_chunk_size")
    /\ \E v \in ParamValues : state' = [state EXCEPT !.chunk_size = v]
    /\ pc' = "chat"
    /\ UNCHANGED <<done_called, last_exec>>
    /\ ToolFrame

\* DocumentPreprocessingAgent.has_chunk_overlap(chunk_overlap)
Preprocessing_has_chunk_overlap ==
    /\ ToolCall(Data_pre_processing, "has_chunk_overlap")
    /\ \E v \in ParamValues : state' = [state EXCEPT !.chunk_overlap = v]
    /\ pc' = "chat"
    /\ UNCHANGED <<done_called, last_exec>>
    /\ ToolFrame

\* documents_transformation(input_dir): no handler; the reader raises on a
\* missing directory, and always on None or "".
documents_transformation(input_dir) ==
    IF Truthy(input_dir) THEN {"documents", "raise"} ELSE {"raise"}

\* split_documents_into_nodes: any failure is caught and gives [].
split_documents_into_nodes(chunk_size, chunk_overlap) ==
    IF chunk_size # NULL /\ chunk_overlap # NULL
    THEN {"nodes", "empty"} ELSE {"empty"}

\* save_nodes: any failure is caught and nothing is saved.
save_nodes(nodes) == {"saved_" \o nodes, "unsaved"}

\* preprocess_docs.process_documents(): runs on the copied parameters.
process_documents ==
    /\ ToolCall(Data_pre_processing, "process_documents")
    /\ \E d \in documents_transformation(doc_processor.input_dir) :
          IF d = "raise"
          THEN /\ last_exec' = "raised"
               /\ ToolRaises
          ELSE \E n \in split_documents_into_nodes(doc_processor.chunk_size,
                                                   doc_processor.chunk_overlap) :
               \E r \in save_nodes(n) :
                  /\ last_exec' = r
                  /\ pc' = "chat"
    /\ UNCHANGED <<state, done_called>>
    /\ ToolFrame

\* Mutant of Preprocessing_done: completion raises the flag but keeps the
\* floor.
Preprocessing_done_KeepsFloor ==
    /\ ToolCall(Data_pre_processing, "done")
    /\ state' = [state EXCEPT !.just_finished = TRUE]
    /\ pc' = "chat"
    /\ done_called' = TRUE
    /\ UNCHANGED last_exec
    /\ ToolFrame

\* Mutant of Preprocessing_done: completion also forgets the input directory.
Preprocessing_done_ClearsInputDir ==
    /\ ToolCall(Data_pre_processing, "done")
    /\ state' = [state EXCEPT !.current_speaker = NULL, !.just_finished = TRUE,
                              !.input_dir = NULL]
    /\ pc' = "chat"
    /\ done_called' = TRUE
    /\ UNCHANGED last_exec
    /\ ToolFrame

\* DocumentPreprocessingAgent.done()
Preprocessing_done ==
    /\ ToolCall(Data_pre_processing, "done")
    /\ state' = [state EXCEPT !.current_speaker = NULL, !.just_finished = TRUE]
    /\ pc' = "chat"
    /\ done_called' = TRUE
    /\ UNCHANGED last_exec
    /\ ToolFrame

\* GenerationAgent.generation(state): the parameter named state is the
\* argument the decision service supplies, not the shared state; the
\* retrieval behind it may raise.
Generation_generation ==
    /\ ToolCall(Generation, "generation")
    /\ \/ pc' = "chat"
       \/ ToolRaises
    /\ UNCHANGED <<state, done_called, last_exec>>
    /\ ToolFrame

\* GenerationAgent.done(state): runs generation(state) and then writes
\* current_speaker and just_finished into its own parameter, the argument
\* the decision service supplied; the shared state is not written.
Generation_done ==
    /\ ToolCall(Generation, "done")
    /\ \/ pc' = "chat"
       \/ ToolRaises
    /\ done_called' = TRUE
    /\ UNCHANGED <<state, last_exec>>
    /\ ToolFrame

\* QdrantIndexingAgent: records the embedding model.
Indexing_has_embedding_model ==
    /\ ToolCall(Indexing, "has_embedding_model")
    /\ \E v \in ParamValues : state' = [state EXCEPT !.embedding_model = v]
    /\ pc' = "chat"
    /\ UNCHANGED <<done_called, last_exec>>
    /\ ToolFrame

\* QdrantIndexingAgent: the completion tool.
Indexing_done ==
    /\ ToolCall(Indexing, "done")
    /\ state' = [state EXCEPT !.current_speaker = NULL, !.just_finished = TRUE]
    /\ pc' = "chat"
    /\ done_called' = TRUE
    /\ UNCHANGED last_exec
    /\ ToolFrame

\* concierge_agent_factory.dummy_tool()
dummy_tool ==
    /\ ToolCall(Concierge, "dummy_tool")
    /\ pc' = "chat"
    /\ UNCHANGED <<state, done_called, last_exec>>
    /\ ToolFrame

\* Lines 279-284: chat() returns the reply; the agent's whole memory becomes
\* the canonical log.  The agent object is not used again: the next
\* dispatch builds a new one.
ChatReturn ==
    /\ pc = "chat"
    /\ agent_memory' = Append(agent_memory, "assistant")
    /\ root_memory' = agent_memory'
    /\ tool_calls' = 0
    /\ done_called' = FALSE
    /\ last_exec' = NoExec
    /\ agent' = NULL
    /\ doc_processor' = NoProcessor
    /\ pc' = "loop"
    /\ UNCHANGED <<state, router_obeys>>
    /\ UNCHANGED loopVars
    /\ UNCHANGED turnVars
    /\ UNCHANGED routeVars

Next ==
    \/ Greeting
    \/ RetryUtterance
    \/ Continuation
    \/ DirectInput
    \/ LoopExit
    \/ StickySpeaker
    \/ AskOrchestrator
    \/ Dispatch
    \/ Preprocessing_has_input_dir
    \/ Preprocessing_has_chunk_size
    \/ Preprocessing_has_chunk_overlap
    \/ process_documents
    \/ Preprocessing_done
    \/ Generation_generation
    \/ Generation_done
    \/ Indexing_has_embedding_model
    \/ Indexing_done
    \/ dummy_tool
    \/ ChatReturn

Spec == Init /\ [][Next]_vars

\* ------------------------------------------------ the routing decision alone
\* Every shared state, at the point where the next speaker is resolved, with
\* an orchestration agent that follows its system prompt.
SharedStates ==
    [input_dir : ParamValues, chunk_size : ParamValues,
     chunk_overlap : ParamValues, embedding_model : {NULL, "v"},
     reranking_model : {NULL, "v"}, search_type : {NULL, "v"},
     query : {NULL, "v"}, current_speaker : {NULL} \cup StickyRoles,
     just_finished : {FALSE}]

\* The shared states the agents' tools can produce: the query parameters
\* have no tool that writes them.
WritableStates ==
    {st \in SharedStates :
        st.reranking_model = NULL /\ st.search_type = NULL /\ st.query = NULL}

RouterAt(states) ==
    /\ state \in states
    /\ root_memory = << >>
    /\ first_run = FALSE
    /\ is_retry = FALSE
    /\ should_continue = TRUE
    /\ user_msg_str = "hello"
    /\ current_history = << >>
    /\ next_speaker = NULL
    /\ agent = NULL
    /\ doc_processor = NoProcessor
    /\ agent_memory = << >>
    /\ tool_calls = 0
    /\ pc = "route"
    /\ utterance_source = "prompt"
    /\ router_called = FALSE
    /\ router_obeys = TRUE
    /\ last_call = NoCall
    /\ done_called = FALSE
    /\ last_exec = NoExec
    /\ pending_input = "hello"

InitRouter == RouterAt(SharedStates)

InitRouterWritable == RouterAt(WritableStates)

NextRouter ==
    \/ StickySpeaker
    \/ AskOrchestrator

SpecRouter == InitRouter /\ [][NextRouter]_vars

SpecRouterWritable == InitRouterWritable /\ [][NextRouter]_vars

\* ------------------------------------------------ the loop, Router obeying
\* run() from its start with an orchestration agent that follows its system
\* prompt.
InitObeys ==
    /\ state = get_initial_state
    /\ root_memory = << >>
    /\ first_run = TRUE
    /\ is_retry = FALSE
    /\ should_continue = TRUE
    /\ user_msg_str = NULL
    /\ current_history = << >>
    /\ next_speaker = NULL
    /\ agent = NULL
    /\ doc_processor = preprocess_docs(get_initial_state)
    /\ agent_memory = << >>
    /\ tool_calls = 0
    /\ pc = "loop"
    /\ utterance_source = "none"
    /\ router_called = FALSE
    /\ router_obeys = TRUE
    /\ last_call = NoCall
    /\ done_called = FALSE
    /\ last_exec = NoExec
    /\ pending_input = NULL

\* The steps of run() that such a Router leaves possible: it never answers
\* generation or indexing, so the tools of these two agents are not called.
NextObeys ==
    \/ Greeting
    \/ Continuation
    \/ DirectInput
    \/ LoopExit
    \/ StickySpeaker
    \/ AskOrchestrator
    \/ Dispatch
    \/ Preprocessing_has_input_dir
    \/ Preprocessing_has_chunk_size
    \/ Preprocessing_has_chunk_overlap
    \/ process_documents
    \/ Preprocessing_done
    \/ dummy_tool
    \/ ChatReturn

SpecObeys == InitObeys /\ [][NextObeys]_vars

\* ------------------------------------------------ what the turns can reach
\* The shared states that sequences of turns lead to, computed from the
\* writes of the loop and of the agents' tools.

\* What one tool call of the indexing agent can make of the shared state.
IndexingWrites(st) ==
    {[st EXCEPT !.embedding_model = v] : v \in ParamValues}
    \cup {[st EXCEPT !.current_speaker = NULL, !.just_finished = TRUE]}

\* What one tool call of an agent can make of the shared state: the
\* preprocessing agent's setters and done(); the tools of the Concierge and
\* of the generation agent write nothing.
ToolWrites(who, st) ==
    CASE who = Data_pre_processing ->
            {[st EXCEPT ![f] = v] :
                f \in {"input_dir", "chunk_size", "chunk_overlap"},
                v \in ParamValues}
            \cup {[st EXCEPT !.current_speaker = NULL, !.just_finished = TRUE]}
      [] who = Indexing -> IndexingWrites(st)
      [] OTHER -> {st}

\* What a chat of at most n tool calls can make of the shared state.
RECURSIVE ChatWrites(_, _, _)
ChatWrites(who, st, n) ==
    IF n = 0 THEN {st}
    ELSE {st} \cup UNION {ChatWrites(who, st2, n - 1) : st2 \in ToolWrites(who, st)}

\* Lines 244-250: the speakers an iteration can resolve when the
\* orchestration agent follows its prompt, whatever the user wants.
Dispatchable(st) ==
    IF HasSpeaker(st) THEN {st.current_speaker}
    ELSE UNION {Decide(st, i) : i \in Intents}

\* Lines 220-284: the shared states an iteration that starts in st can end
\* in: just_finished is cleared, a speaker is resolved and takes the floor,
\* and its chat runs.
TurnEnds(st) ==
    LET st0 == [st EXCEPT !.just_finished = FALSE]
    IN  UNION {ChatWrites(sp,
                          IF sp \in StickyRoles
                          THEN [st0 EXCEPT !.current_speaker = sp] ELSE st0,
                          MaxToolCalls) : sp \in Dispatchable(st0)}

\* The shared states at the start of an iteration after any number of turns
\* from the states of S.
RECURSIVE ReachableFrom(_)
ReachableFrom(S) ==
    LET T == S \cup UNION {TurnEnds(st) : st \in S}
    IN  IF T = S THEN S ELSE ReachableFrom(T)

\* ------------------------------------------------ claims
\* C1: sticky routing.  Where the next speaker has been resolved, the
\* orchestration agent was asked in this iteration exactly when
\* current_speaker was None, and with a current_speaker set the resolved
\* speaker is that value.
StickyRouting ==
    pc = "dispatch" =>
        /\ router_called <=> (state.current_speaker = NULL)
        /\ state.current_speaker # NULL => next_speaker = state.current_speaker

\* C1 witness: the preprocessing agent holds the floor and is resolved
\* without the orchestration agent.
StickyRoutingWitness ==
    /\ pc = "dispatch"
    /\ state.current_speaker = Data_pre_processing
    /\ next_speaker = Data_pre_processing
    /\ ~router_called
    /\ utterance_source = "prompt"

\* C2: the retry edge.  When the orchestration agent's answer is none of
\* data_pre_processing, indexing, generation, Concierge, the dispatch step
\* leaves the shared state as it was at the call, starts no agent and sets the
\* retry flag; and the loop then always goes back to routing with the fixed
\* clarification as the utterance, reading no line from the user.
RetryEdge ==
    [][ /\ (pc = "dispatch"
            /\ next_speaker \notin {"data_pre_processing", "indexing",
                                    "generation", "Concierge"})
           => /\ state' = state
              /\ last_call.state = state'
              /\ pc' = "loop"
              /\ is_retry' = TRUE
              /\ UNCHANGED <<agent, agent_memory, root_memory>>
        /\ (pc = "loop" /\ is_retry = TRUE)
           => /\ pc' = "route"
              /\ user_msg_str' = RetryMsg
              /\ utterance_source' = "retry"
              /\ state' = state ]_vars

\* C3: the continuation round trip.  An iteration that starts with
\* just_finished set asks the continuation agent before any "> " prompt;
\* just_finished is false wherever the next speaker is resolved; and it
\* becomes true only in a step in which a completion tool ran.
ContinuationRoundTrip ==
    [][ /\ (pc = "loop" /\ state.just_finished = TRUE /\ pc' = "route")
           => utterance_source' \in {"continuation", "prompt_after_continuation"}
        /\ pc' \in {"route", "dispatch"} => state'.just_finished = FALSE
        /\ (state.just_finished = FALSE /\ state'.just_finished = TRUE)
           => (pc = "chat" /\ done_called') ]_vars

\* C3 witness: the iteration after a completion has asked the continuation
\* agent, taken its utterance and reached routing with the flag cleared.
ContinuationRoundTripWitness ==
    /\ pc = "route"
    /\ utterance_source = "continuation"
    /\ state.just_finished = FALSE
    /\ state.current_speaker = NULL
    /\ Len(root_memory) > 0

\* C4: exit is terminal.  Once a line that is exit has been read, the only
\* step left is the end of the loop: the orchestration agent is not asked, no
\* agent is dispatched, and current_speaker and the canonical log stay.
ExitIsTerminal ==
    [][ should_continue = FALSE
        => /\ pc' = "done"
           /\ router_called' = router_called
           /\ state'.current_speaker = state.current_speaker
           /\ root_memory' = root_memory ]_vars

\* C5: the loop ends only through exit typed by the user.  Whenever the loop
\* flag is down or run() has returned, the utterance in hand was read at one
\* of the two prompts and is exit in lower case; run() returns only with the
\* flag down; and while the flag is up the loop always takes another turn.
ExitOnlyByDirectInput ==
    /\ (should_continue = FALSE \/ pc = "done")
       => /\ utterance_source \in {"prompt", "prompt_after_continuation"}
          /\ Lower(user_msg_str) = "exit"
          /\ should_continue = FALSE
    /\ (pc = "loop" /\ should_continue = TRUE)
       => ENABLED (Greeting \/ RetryUtterance \/ Continuation \/ DirectInput)

\* C5 witness: run() has returned after the user typed EXIT with blanks
\* around it at the prompt that follows no_further_task.
ExitOnlyByDirectInputWitness ==
    /\ pc = "done"
    /\ utterance_source = "prompt_after_continuation"
    /\ user_msg_str = "EXIT"

\* C6: the completion signal.  A turn in which a completion tool was called
\* ends with current_speaker None and just_finished true.
CompletionSignal ==
    [][ (pc = "chat" /\ pc' = "loop" /\ done_called = TRUE)
        => (state'.current_speaker = NULL /\ state'.just_finished = TRUE) ]_vars

RoutingDeterminism ==
    [][ (pc = "route" /\ pc' = "dispatch" /\ router_called'
         /\ last_call.made
         /\ last_call.state = state
         /\ last_call.history = current_history
         /\ last_call.msg = user_msg_str)
        => next_speaker' = last_call.decision ]_vars

\* C11: the Concierge is not sticky.  While the Concierge chats the shared
\* state stays as it is, with current_speaker None and just_finished false;
\* and the iteration that follows a Concierge turn resolves the next speaker
\* by asking the orchestration agent.
ConciergeNonSticky ==
    [][ /\ (pc = "chat" /\ agent = "Concierge")
           => /\ state' = state
              /\ state.current_speaker = NULL
              /\ state.just_finished = FALSE
        /\ (pc = "route" /\ next_speaker = "Concierge")
           => router_called' = TRUE ]_vars

\* C11 witness: a Concierge turn with a tool call has ended, the user has
\* typed the next line, and nobody holds the floor.
ConciergeNonStickyWitness ==
    /\ pc = "route"
    /\ next_speaker = "Concierge"
    /\ utterance_source = "prompt"
    /\ state.current_speaker = NULL
    /\ Len(root_memory) >= 3

\* C12: the memory hand-over.  The canonical log changes only in the step
\* that ends an agent's chat, where it becomes the agent's whole log; that
\* log extends the snapshot the agent was handed; and the steps that take the
\* utterance (the retry and the continuation agent among them), resolve the
\* speaker and dispatch leave the canonical log as it is.
MemoryHandOver ==
    [][ /\ root_memory' # root_memory => (pc = "chat" /\ pc' = "loop")
        /\ (pc = "chat" /\ pc' = "loop")
           => /\ root_memory' = agent_memory'
              /\ Len(root_memory') > Len(current_history)
              /\ SubSeq(root_memory', 1, Len(current_history)) = current_history
        /\ pc \in {"loop", "route", "dispatch"} => root_memory' = root_memory ]_vars

\* C12 witness: a turn that started from a snapshot of two messages has
\* ended and the canonical log is that snapshot with the turn's messages
\* after it.
MemoryHandOverWitness ==
    /\ pc = "loop"
    /\ Len(current_history) = 2
    /\ Len(root_memory) > 3
    /\ SubSeq(root_memory, 1, 2) = current_history

\* C13: a null or empty parameter keeps the field unset.  No step writes
\* None or the empty string into input_dir, chunk_size or chunk_overlap: a
\* value that is set is not replaced by None, and a field does not come to
\* count as set, the gate passing, through an empty string.
NullKeepsFieldUnset ==
    [][ \A f \in {"input_dir", "chunk_size", "chunk_overlap"} :
           state'[f] # state[f] => state'[f] \notin {NULL, EMPTY} ]_vars

\* C14: the continuation agent examines the full history.  In the step that
\* asks the continuation agent, the history it is handed is the canonical log
\* as the turn that has just finished left it.
ContinuationSeesFullHistory ==
    [][ (pc = "loop" /\ pc' = "route"
         /\ utterance_source' \in {"continuation", "prompt_after_continuation"})
        => ContinuationHistory = root_memory ]_vars

\* C15: the executor runs on the parameters the shared state holds when it
\* is invoked.  In a step in which process_documents runs, the three values
\* it works on are those of the shared state at that moment, and none of
\* them is None.
ExecutorUsesCurrentParameters ==
    [][ (pc = "chat" /\ last_exec' # last_exec /\ last_exec' # NoExec)
        => /\ doc_processor = preprocess_docs(state)
           /\ doc_processor.input_dir # NULL
           /\ doc_processor.chunk_size # NULL
           /\ doc_processor.chunk_overlap # NULL ]_vars

\* C16: the sentinels are compared after trimming.  The speaker resolved
\* from the orchestration agent's text is the trimmed text, and a text of the
\* continuation agent that is no_further_task once trimmed is never taken as
\* the utterance of the turn.
SentinelTrimmed ==
    /\ (pc = "dispatch" /\ router_called) => next_speaker = Strip(next_speaker)
    /\ utterance_source = "continuation" => Strip(user_msg_str) # "no_further_task"

ExecutorFailureContained ==
    [][ (pc = "chat" /\ last_exec' # last_exec /\ last_exec' # NoExec)
        => /\ last_exec' # "raised"
           /\ pc' = "chat"
           /\ state' = state ]_vars

\* C19: no utterance of the user is lost.  When a line is read at one of the
\* two prompts, the line read before it, unless it was exit, has been given
\* to a dispatched agent as the utterance of a turn.
NoUtteranceLost ==
    [][ (pc = "loop" /\ pc' = "route"
         /\ utterance_source' \in {"prompt", "prompt_after_continuation"})
        => pending_input = NULL ]_vars

\* C20: every task agent is reachable.  From the initial state, with an
\* orchestration agent that follows its prompt, some sequence of turns leads
\* to a shared state in which the preprocessing agent is dispatched, and some
\* sequence to one in which the generation agent is dispatched.
EveryTaskAgentReachable ==
    (pc = "loop" /\ first_run)
    => \A a \in {"data_pre_processing", "generation"} :
          \E st \in ReachableFrom({state}) :
             a \in Dispatchable([st EXCEPT !.just_finished = FALSE])

\* C21: the values of current_speaker.  In every reachable state
\* current_speaker is None or one of data_pre_processing, indexing,
\* generation; it is never Concierge, orchestrator, retriever, reranking or
\* another text the orchestration agent gave.
CurrentSpeakerValues ==
    state.current_speaker \in
        {NULL, "data_pre_processing", "indexing", "generation"}

\* C21 witness: after a preprocessing turn that ended with done(), the
\* orchestration agent has answered retriever, the retry flag is up, and
\* current_speaker is None.
CurrentSpeakerValuesWitness ==
    /\ pc = "loop" /\ is_retry = TRUE
    /\ next_speaker = "retriever"
    /\ state.input_dir = "v"
    /\ state.current_speaker = NULL

\* C22: just_finished is consumed before routing.  Where an iteration starts,
\* just_finished true goes with current_speaker None and the retry flag down;
\* and just_finished is false wherever the next speaker is resolved or
\* dispatched and where the dispatched agent starts its chat.
JustFinishedConsumed ==
    /\ (pc = "loop" /\ state.just_finished = TRUE)
       => (state.current_speaker = NULL /\ is_retry = FALSE)
    /\ pc \in {"route", "dispatch"} => state.just_finished = FALSE
    /\ (pc = "chat" /\ tool_calls = 0) => state.just_finished = FALSE

\* C22 witness: an iteration starts with just_finished up after a
\* preprocessing turn, nobody holding the floor and no retry pending.
JustFinishedConsumedWitness ==
    /\ pc = "loop" /\ should_continue = TRUE
    /\ state.just_finished = TRUE
    /\ state.current_speaker = NULL
    /\ is_retry = FALSE
    /\ next_speaker = "data_pre_processing"
====
